---- MODULE Spec2Model ----
(***************************************************************************)
(* A model of the lottery server of tp0-base: the frame codec              *)
(* (server/common/protocol.py), the lottery coordinator                    *)
(* (server/common/lottery.py) and the connection dispatcher                *)
(* (server/common/server.py).                                              *)
(*                                                                         *)
(* Two specifications are given.  Spec is the server: connection threads   *)
(* that receive requests and run the handlers of server.py.  LotterySpec   *)
(* is the coordinator alone: threads that call the public methods of       *)
(* LotteryManager in any order, which is what a claim about "any number    *)
(* of threads calling perform_lottery" speaks of (server.py itself never   *)
(* calls perform_lottery).                                                 *)
(*                                                                         *)
(* Byte strings are sequences of numbers 0..255; Python str values are     *)
(* kept as the sequence of their (ASCII) character codes.                  *)
(***************************************************************************)
EXTENDS Integers, Sequences, FiniteSets, TLC

\* ------------------------------------------------------------ bounds
\* Number of connection threads (Spec) or calling threads (LotterySpec).
NumThreads == 2
\* Largest number of bets the storage file is let to hold.
MaxBets == 2

\* ------------------------------------------------- program constants
AGENCY_COUNT == 5

MSG_SUCCESS == 0
MSG_ERROR == 1
MSG_BET == 16
MSG_BATCH == 17
MSG_ECHO == 18
SUCCESS_BATCH_PROCESSED == 1
SUCCESS_BET_PROCESSED == 2
ERROR_BATCH_FAILED == 1
ERROR_BET_FAILED == 2
ERROR_MALFORMED_MESSAGE == 3
ERROR_INVALID_MESSAGE == 4
MAX_ECHO_MSG_LENGTH == 1024
MAX_BATCH_MSG_LENGTH == 8192
MIN_PROTOCOL_MESSAGE_LENGTH == 5
\* Named by server.py, absent from the protocol.py at hand: the values are
\* an implementation choice, fixed here.
MSG_NOTIFY == 19
MSG_WINNERS_QUERY == 20
ERROR_LOTTERY_NOT_DONE == 5
\* common/utils.py (not at hand): the number has_won compares with.
LOTTERY_WINNER_NUMBER == 7574

\* ------------------------------------------------------ Python values
\* data[lo:hi] for 0 <= lo <= hi: a slice never fails, it is cut short.
Slice(data, lo, hi) ==
    LET top == IF hi < Len(data) THEN hi ELSE Len(data)
    IN  IF lo >= top THEN << >> ELSE SubSeq(data, lo + 1, top)

\* struct.pack('>I', n)
pack_u32(n) ==
    << (n \div 16777216) % 256, (n \div 65536) % 256, (n \div 256) % 256, n % 256 >>

\* struct.unpack('>I', b)[0]: struct.error unless b holds exactly 4 bytes.
\* A value of 2^30 or more is kept as 2^30: it is beyond every length, count
\* and agency id the code compares it with.
unpack_u32(b) ==
    IF Len(b) # 4 THEN [ok |-> FALSE, val |-> 0]
    ELSE IF b[1] >= 64 THEN [ok |-> TRUE, val |-> 1073741824]
    ELSE [ok |-> TRUE, val |-> ((b[1] * 256 + b[2]) * 256 + b[3]) * 256 + b[4]]

\* bytes.decode('utf-8') succeeds.  Only ASCII bytes and the byte 0xFF (never
\* valid in UTF-8) occur in the inputs of this model.
utf8_ok(b) == \A i \in 1..Len(b) : b[i] < 128

\* str(n) for n >= 0: the decimal digits, as character codes.
RECURSIVE str(_)
str(n) == IF n < 10 THEN << 48 + n >> ELSE str(n \div 10) \o << 48 + (n % 10) >>

IsDigit(c) == c >= 48 /\ c <= 57

\* int(s) for a string of decimal digits.
RECURSIVE int(_)
int(s) ==
    IF Len(s) = 0 THEN 0
    ELSE int(SubSeq(s, 1, Len(s) - 1)) * 10 + (s[Len(s)] - 48)

\* --------------------------------------------------- common/utils.py
\* datetime.date.fromisoformat accepts the text: ten characters YYYY-MM-DD.
IsIsoDate(s) ==
    /\ Len(s) = 10
    /\ \A i \in {1, 2, 3, 4, 6, 7, 9, 10} : IsDigit(s[i])
    /\ s[5] = 45 /\ s[8] = 45

\* Bet.__init__(agency, first_name, last_name, document, birthdate, number):
\* agency and number are turned into integers, the document stays a string,
\* and a birthdate that is no ISO date raises.
Bet(agency, first_name, last_name, document, birthdate, number) ==
    IF IsIsoDate(birthdate)
    THEN [ok |-> TRUE,
          bet |-> [agency |-> int(agency), first_name |-> first_name,
                   last_name |-> last_name, document |-> document,
                   birthdate |-> birthdate, number |-> int(number)]]
    ELSE [ok |-> FALSE, bet |-> << >>]

\* has_won(bet)
has_won(bet) == bet.number = LOTTERY_WINNER_NUMBER

\* store_bets(bets) appends to the bets file; load_bets() reads it in order.
store_bets(file, bets) == file \o bets
load_bets(file) == file

\* ------------------------------------------------ common/protocol.py
\* deserialize_string(data, offset): the length prefix may be missing
\* (struct.error) and the bytes may not be UTF-8; a short string is not an
\* error, and the offset moves on by the length that was announced.
deserialize_string(data, offset) ==
    LET n == unpack_u32(Slice(data, offset, offset + 4))
        raw == Slice(data, offset + 4, offset + 4 + n.val)
    IN  IF n.ok /\ utf8_ok(raw)
        THEN [ok |-> TRUE, string |-> raw, offset |-> offset + 4 + n.val]
        ELSE [ok |-> FALSE, string |-> << >>, offset |-> offset]

\* deserialize_bet(data): every exception becomes
\* ProtocolError(ERROR_BET_FAILED); ok = FALSE stands for it.
deserialize_bet(data) ==
    LET agency == unpack_u32(Slice(data, 0, 4))
        first == deserialize_string(data, 4)
        last == deserialize_string(data, first.offset)
        o == last.offset
        document == unpack_u32(Slice(data, o, o + 4))
        birthraw == Slice(data, o + 4, o + 14)
        number == unpack_u32(Slice(data, o + 14, o + 18))
    IN  IF /\ agency.ok /\ first.ok /\ last.ok /\ document.ok
           /\ utf8_ok(birthraw) /\ number.ok
        THEN Bet(str(agency.val), first.string, last.string, str(document.val),
                 birthraw, str(number.val))
        ELSE [ok |-> FALSE, bet |-> << >>]

\* The loop of deserialize_batch, from entry number `done + 1' on: `left'
\* entries remain.  Any exception in it, a failed deserialize_bet included,
\* is raised again as ProtocolError(ERROR_BATCH_FAILED).
RECURSIVE batch_loop(_, _, _, _)
batch_loop(data, offset, left, bets) ==
    IF left = 0 THEN [err |-> "none", code |-> 0, bets |-> bets]
    ELSE LET bet_length == unpack_u32(Slice(data, offset, offset + 4))
             bet_data == Slice(data, offset + 4, offset + 4 + bet_length.val)
             bet == deserialize_bet(bet_data)
         IN  IF bet_length.ok /\ bet.ok
             THEN batch_loop(data, offset + 4 + bet_length.val, left - 1,
                             Append(bets, bet.bet))
             ELSE [err |-> "ProtocolError", code |-> ERROR_BATCH_FAILED,
                   bets |-> << >>]

\* The same loop with `break' in place of the raise: the bets decoded before
\* the corrupt entry are returned.
RECURSIVE batch_loop_break(_, _, _, _)
batch_loop_break(data, offset, left, bets) ==
    IF left = 0 THEN [err |-> "none", code |-> 0, bets |-> bets]
    ELSE LET bet_length == unpack_u32(Slice(data, offset, offset + 4))
             bet_data == Slice(data, offset + 4, offset + 4 + bet_length.val)
             bet == deserialize_bet(bet_data)
         IN  IF bet_length.ok /\ bet.ok
             THEN batch_loop_break(data, offset + 4 + bet_length.val, left - 1,
                                   Append(bets, bet.bet))
             ELSE [err |-> "none", code |-> 0, bets |-> bets]

deserialize_batch_partial(data) ==
    LET bet_count == unpack_u32(Slice(data, 0, 4))
    IN  IF ~bet_count.ok THEN [err |-> "Exception", code |-> 0, bets |-> << >>]
        ELSE batch_loop_break(data, 4, bet_count.val, << >>)

\* deserialize_batch(data): the count is unpacked outside the try block, so
\* a payload shorter than 4 bytes raises struct.error, not ProtocolError.
deserialize_batch(data) ==
    LET bet_count == unpack_u32(Slice(data, 0, 4))
    IN  IF ~bet_count.ok THEN [err |-> "Exception", code |-> 0, bets |-> << >>]
        ELSE batch_loop(data, 4, bet_count.val, << >>)

\* deserialize_agency_id(data) (not in the protocol.py at hand): a uint32.
deserialize_agency_id(data) == unpack_u32(Slice(data, 0, 4))

\* send_response(msg_type, code): the bytes put on the connection.
send_response(msg_type, code) == pack_u32(1 + 1) \o << msg_type, code >>

\* send_winners_list(winners) (not in the protocol.py at hand): a response
\* frame holding a count and the document ids as unsigned 32-bit integers.
RECURSIVE pack_list(_)
pack_list(docs) ==
    IF Len(docs) = 0 THEN << >> ELSE pack_u32(Head(docs)) \o pack_list(Tail(docs))

send_winners_list(docs) ==
    pack_u32(1 + 4 + 4 * Len(docs)) \o << MSG_SUCCESS >> \o pack_u32(Len(docs))
        \o pack_list(docs)

\* ------------------------------------------------------------- state
VARIABLES
    agency_notifications,   \* LotteryManager.agency_notifications
    lock,                   \* LotteryManager.lock is held
    lottery_done,           \* LotteryManager.lottery_done
    winners,                \* LotteryManager.winners
    storage,                \* the bets file behind store_bets / load_bets
    pc,                     \* where each thread stands
    call,                   \* the coordinator call each thread is in
    ret,                    \* what query_winners returned to each thread
    resp,                   \* the last response sent on each connection
    drawCount,              \* how many times the draw body has run
    storedAtLastNotify,     \* the bets file as it was when the last of the
                            \* agencies notified
    \* one connection, byte by byte (ConnSpec)
    stream,                 \* bytes received on the socket, not yet read
    unsent,                 \* the writes the peer has still to make
    peer_open,              \* the peer has not closed the connection
    at,                     \* where handle_client stands on the connection
    body_length,            \* receive_message: the unpacked length
    frame_body,             \* receive_message: the message_data returned
    sent,                   \* how many frames were sent on the connection
    \* the supervisor (RunSpec)
    shutdown_event,         \* Server._shutdown_event is set
    server_socket,          \* Server._server_socket is open
    run_at,                 \* where Server.run stands
    client_threads,         \* run's list of the threads it started
    joined                  \* how many of them __shutdown_workers has joined

\* The connection read byte by byte, and the supervisor.
connvars == << stream, unsent, peer_open, at, body_length, frame_body, sent >>
runvars == << shutdown_event, server_socket, run_at, client_threads, joined >>

\* What the coordinator and the handlers of a request leave alone.
others == << connvars, runvars >>

vars == << agency_notifications, lock, lottery_done, winners, storage, pc,
           call, ret, resp, drawCount, storedAtLastNotify, connvars, runvars >>

Threads == 1..NumThreads
Agencies == 1..AGENCY_COUNT

NoCall == [op |-> "none", bets |-> << >>, agency |-> 0]
\* query_winners returns None (none = TRUE) or a list of documents.
None == [none |-> TRUE, docs |-> << >>]
List(docs) == [none |-> FALSE, docs |-> docs]
NoResp == << >>

\* LotteryManager.__init__
LotteryManager_init ==
    /\ agency_notifications = [i \in Agencies |-> FALSE]
    /\ lock = FALSE
    /\ lottery_done = FALSE
    /\ winners = << >>

\* A connection just accepted: nothing received, nothing sent.
conn_init ==
    /\ stream = << >>
    /\ unsent = << >>
    /\ peer_open = TRUE
    /\ at = "peek"
    /\ body_length = 0
    /\ frame_body = << >>
    /\ sent = 0

\* Server.__init__ and the head of run: listening, no thread started.
run_init ==
    /\ shutdown_event = FALSE
    /\ server_socket = TRUE
    /\ run_at = "accept"
    /\ client_threads = << >>
    /\ joined = 0

\* ------------------------------------------------- common/lottery.py
\* The methods of LotteryManager, as steps of the calling thread t.  A step
\* says what becomes of the coordinator, of the lock and of the value
\* returned; where the caller goes on is said by the caller (the handlers of
\* server.py in Spec, Returns in LotterySpec).

\* A lock that excludes nobody (a Lock object of the method's own, say):
\* the caller stands in the body whether or not another thread is in one.
with_lock_unshared(t, from, op, bets, agency) ==
    /\ pc[t] = from
    /\ lock' = TRUE
    /\ pc' = [pc EXCEPT ![t] = op]
    /\ call' = [call EXCEPT ![t] = [op |-> op, bets |-> bets, agency |-> agency]]

\* `with self.lock:' at the head of a method: the caller, at `from', takes
\* the free lock and stands in the method's body.
with_lock(t, from, op, bets, agency) ==
    /\ pc[t] = from
    /\ lock = FALSE
    /\ lock' = TRUE
    /\ pc' = [pc EXCEPT ![t] = op]
    /\ call' = [call EXCEPT ![t] = [op |-> op, bets |-> bets, agency |-> agency]]

\* The method is left and its caller holds the value returned; of the call
\* only the name is kept.
Returns(t) ==
    /\ pc' = [pc EXCEPT ![t] = "returned"]
    /\ call' = [call EXCEPT ![t] = [op |-> call[t].op, bets |-> << >>, agency |-> 0]]
    /\ UNCHANGED resp

all_agencies_notified == \A a \in Agencies : agency_notifications[a]

\* register_bet(bet): store_bets([bet]) under the lock.
register_bet(t) ==
    /\ pc[t] = "register_bet"
    /\ storage' = store_bets(storage, call[t].bets)
    /\ lock' = FALSE
    /\ UNCHANGED << agency_notifications, lottery_done, winners, ret,
                    drawCount, storedAtLastNotify >>

\* register_batch(bets): store_bets(bets) under the lock.
register_batch(t) ==
    /\ pc[t] = "register_batch"
    /\ storage' = store_bets(storage, call[t].bets)
    /\ lock' = FALSE
    /\ UNCHANGED << agency_notifications, lottery_done, winners, ret,
                    drawCount, storedAtLastNotify >>

\* History: the bets file at the notification that completes the set.
note_last_notify ==
    storedAtLastNotify' =
        IF (\A a \in Agencies : agency_notifications'[a]) /\ ~all_agencies_notified
        THEN storage ELSE storedAtLastNotify

\* notify_agency without line 50: the agency is never marked.
notify_agency_nomark(t) ==
    /\ pc[t] = "notify_agency"
    /\ lock' = FALSE
    /\ UNCHANGED << agency_notifications, lottery_done, winners, storage, ret,
                    drawCount, storedAtLastNotify >>

\* notify_agency with the draw run on every first notification, whether or
\* not the other agencies have notified.
notify_agency_draws(t) ==
    /\ pc[t] = "notify_agency"
    /\ LET a == call[t].agency
       IN  IF a \in Agencies /\ ~agency_notifications[a]
           THEN /\ agency_notifications' = [agency_notifications EXCEPT ![a] = TRUE]
                /\ winners' = SelectSeq(load_bets(storage), has_won)
                /\ lottery_done' = TRUE
           ELSE UNCHANGED << agency_notifications, winners, lottery_done >>
    /\ note_last_notify
    /\ lock' = FALSE
    /\ UNCHANGED << storage, ret, drawCount >>

\* notify_agency with line 50 as a toggle and no test at line 46: a second
\* notification of an agency takes its mark away.
notify_agency_toggles(t) ==
    /\ pc[t] = "notify_agency"
    /\ LET a == call[t].agency
       IN  IF a \notin Agencies THEN UNCHANGED agency_notifications
           ELSE agency_notifications' =
                    [agency_notifications EXCEPT ![a] = ~agency_notifications[a]]
    /\ note_last_notify
    /\ lock' = FALSE
    /\ UNCHANGED << lottery_done, winners, storage, ret, drawCount >>

\* notify_agency as a rendezvous held inside the lock: the method goes on
\* only once every other agency has notified.
notify_agency_rendezvous(t) ==
    /\ pc[t] = "notify_agency"
    /\ \A a \in Agencies \ {call[t].agency} : agency_notifications[a]
    /\ LET a == call[t].agency
       IN  IF a \in Agencies /\ ~agency_notifications[a]
           THEN agency_notifications' = [agency_notifications EXCEPT ![a] = TRUE]
           ELSE UNCHANGED agency_notifications
    /\ note_last_notify
    /\ lock' = FALSE
    /\ UNCHANGED << lottery_done, winners, storage, ret, drawCount >>

\* notify_agency(agency_id): an unknown agency and one that has notified
\* already are skipped; otherwise the agency is marked.  Nothing else.
notify_agency(t) ==
    /\ pc[t] = "notify_agency"
    /\ LET a == call[t].agency
       IN  IF a \notin Agencies THEN UNCHANGED agency_notifications
           ELSE IF agency_notifications[a] THEN UNCHANGED agency_notifications
           ELSE agency_notifications' = [agency_notifications EXCEPT ![a] = TRUE]
    /\ note_last_notify
    /\ lock' = FALSE
    /\ UNCHANGED << lottery_done, winners, storage, ret, drawCount >>

\* perform_lottery without the lottery_done test of line 64.
perform_lottery_nocheck(t) ==
    /\ pc[t] = "perform_lottery"
    /\ pc' = [pc EXCEPT ![t] = "perform_lottery_load"]
    /\ UNCHANGED << agency_notifications, lock, lottery_done, winners, storage,
                    call, ret, resp, drawCount, storedAtLastNotify >>
    /\ UNCHANGED others

\* perform_lottery with the with block closed after the test of line 64:
\* the bets are loaded with the lock given back.
perform_lottery_check_releases(t) ==
    /\ pc[t] = "perform_lottery"
    /\ lock' = FALSE
    /\ IF lottery_done
       THEN Returns(t)
       ELSE /\ pc' = [pc EXCEPT ![t] = "perform_lottery_load"]
            /\ UNCHANGED << call, resp >>
    /\ UNCHANGED << agency_notifications, lottery_done, winners, storage, ret,
                    drawCount, storedAtLastNotify >>
    /\ UNCHANGED others

\* perform_lottery, lines 64-66: a draw already done is not run again.
perform_lottery_check(t) ==
    /\ pc[t] = "perform_lottery"
    /\ IF lottery_done
       THEN lock' = FALSE /\ Returns(t)
       ELSE /\ pc' = [pc EXCEPT ![t] = "perform_lottery_load"]
            /\ UNCHANGED << lock, call, resp >>
    /\ UNCHANGED << agency_notifications, lottery_done, winners, storage, ret,
                    drawCount, storedAtLastNotify >>
    /\ UNCHANGED others

\* perform_lottery, line 67: the winners are the stored bets that won.
perform_lottery_load(t) ==
    /\ pc[t] = "perform_lottery_load"
    /\ winners' = SelectSeq(load_bets(storage), has_won)
    /\ drawCount' = drawCount + 1
    /\ pc' = [pc EXCEPT ![t] = "perform_lottery_set"]
    /\ UNCHANGED << agency_notifications, lock, lottery_done, storage, call,
                    ret, resp, storedAtLastNotify >>
    /\ UNCHANGED others

\* perform_lottery, line 69, and the end of the with block.
perform_lottery_set(t) ==
    /\ pc[t] = "perform_lottery_set"
    /\ lottery_done' = TRUE
    /\ lock' = FALSE
    /\ Returns(t)
    /\ UNCHANGED << agency_notifications, winners, storage, ret, drawCount,
                    storedAtLastNotify >>
    /\ UNCHANGED others

\* The documents of the winners of one agency, in the winners' order.
RECURSIVE agency_winners(_, _)
agency_winners(ws, agency_id) ==
    IF Len(ws) = 0 THEN << >>
    ELSE IF Head(ws).agency = agency_id
         THEN << int(Head(ws).document) >> \o agency_winners(Tail(ws), agency_id)
         ELSE agency_winners(Tail(ws), agency_id)

\* query_winners that answers from winners without the lottery_done test.
query_winners_nocheck(t) ==
    /\ pc[t] = "query_winners"
    /\ ret' = [ret EXCEPT ![t] = List(agency_winners(winners, call[t].agency))]
    /\ lock' = FALSE
    /\ UNCHANGED << agency_notifications, lottery_done, winners, storage,
                    drawCount, storedAtLastNotify >>

\* query_winners that answers with the documents of every winner.
query_winners_all(t) ==
    /\ pc[t] = "query_winners"
    /\ ret' = [ret EXCEPT ![t] =
                 IF ~lottery_done THEN None
                 ELSE List([i \in 1..Len(winners) |-> int(winners[i].document)])]
    /\ lock' = FALSE
    /\ UNCHANGED << agency_notifications, lottery_done, winners, storage,
                    drawCount, storedAtLastNotify >>

\* query_winners(agency_id), lines 77-85.
query_winners(t) ==
    /\ pc[t] = "query_winners"
    /\ ret' = [ret EXCEPT ![t] =
                 IF ~lottery_done THEN None
                 ELSE List(agency_winners(winners, call[t].agency))]
    /\ lock' = FALSE
    /\ UNCHANGED << agency_notifications, lottery_done, winners, storage,
                    drawCount, storedAtLastNotify >>

\* ------------------------------------------------------------ inputs
\* The bets that are registered: a bet as deserialize_bet builds it.
MkBet(agency, document, number) ==
    Bet(str(agency), << 65 >>, << 66 >>, str(document),
        << 49, 57, 57, 57, 45, 48, 51, 45, 49, 55 >>, str(number)).bet

\* Two winning bets of agency 1, one of agency 2, and a losing bet of agency 3.
BetUniverse ==
    { MkBet(1, 30, LOTTERY_WINNER_NUMBER), MkBet(1, 7, LOTTERY_WINNER_NUMBER),
      MkBet(2, 205, LOTTERY_WINNER_NUMBER), MkBet(3, 41, 7) }

BatchUniverse ==
    { << >>,
      << MkBet(3, 41, 7), MkBet(2, 205, LOTTERY_WINNER_NUMBER) >>,
      << MkBet(1, 7, LOTTERY_WINNER_NUMBER), MkBet(1, 30, LOTTERY_WINNER_NUMBER) >> }

\* Agency ids of notify calls: known ones and one that is unknown.
NotifyIds == {1, AGENCY_COUNT + 1}
\* Agency ids of winner queries: agency 3 has no winning bet.
QueryIds == {1, 3}

\* ------------------------------------------------------- LotterySpec
\* The coordinator alone, its methods called by any thread in any order.
LotteryInit ==
    /\ LotteryManager_init
    /\ storage = << >>
    /\ pc = [t \in Threads |-> "idle"]
    /\ call = [t \in Threads |-> NoCall]
    /\ ret = [t \in Threads |-> None]
    /\ resp = [t \in Threads |-> NoResp]
    /\ drawCount = 0
    /\ storedAtLastNotify = << >>
    /\ conn_init
    /\ run_init

Rest == << agency_notifications, lottery_done, winners, storage, ret, resp,
           drawCount, storedAtLastNotify >>

CallRegisterBet(t) ==
    /\ Len(storage) + 1 <= MaxBets
    /\ \E bet \in BetUniverse : with_lock(t, "idle", "register_bet", << bet >>, 0)
    /\ UNCHANGED Rest
    /\ UNCHANGED others

CallRegisterBatch(t) ==
    /\ \E bets \in BatchUniverse :
          /\ Len(storage) + Len(bets) <= MaxBets
          /\ with_lock(t, "idle", "register_batch", bets, 0)
    /\ UNCHANGED Rest
    /\ UNCHANGED others

CallNotifyAgency(t) ==
    /\ \E a \in NotifyIds : with_lock(t, "idle", "notify_agency", << >>, a)
    /\ UNCHANGED Rest
    /\ UNCHANGED others

CallPerformLottery(t) ==
    /\ with_lock(t, "idle", "perform_lottery", << >>, 0)
    /\ UNCHANGED Rest
    /\ UNCHANGED others

CallQueryWinners(t) ==
    /\ \E a \in QueryIds : with_lock(t, "idle", "query_winners", << >>, a)
    /\ UNCHANGED Rest
    /\ UNCHANGED others

\* The caller takes the result and is free to call again.
Return(t) ==
    /\ pc[t] = "returned"
    /\ pc' = [pc EXCEPT ![t] = "idle"]
    /\ call' = [call EXCEPT ![t] = NoCall]
    /\ ret' = [ret EXCEPT ![t] = None]
    /\ UNCHANGED << agency_notifications, lock, lottery_done, winners, storage,
                    resp, drawCount, storedAtLastNotify >>
    /\ UNCHANGED others

\* The body of a method runs and the method returns to its caller.
RunRegisterBet(t) == register_bet(t) /\ Returns(t) /\ UNCHANGED others
RunRegisterBatch(t) == register_batch(t) /\ Returns(t) /\ UNCHANGED others
RunNotifyAgency(t) == notify_agency(t) /\ Returns(t) /\ UNCHANGED others
RunQueryWinners(t) == query_winners(t) /\ Returns(t) /\ UNCHANGED others

LotteryNext ==
    \E t \in Threads :
        \/ CallRegisterBet(t)
        \/ CallRegisterBatch(t)
        \/ CallNotifyAgency(t)
        \/ CallPerformLottery(t)
        \/ CallQueryWinners(t)
        \/ RunRegisterBet(t)
        \/ RunRegisterBatch(t)
        \/ RunNotifyAgency(t)
        \/ RunQueryWinners(t)
        \/ perform_lottery_check(t)
        \/ perform_lottery_load(t)
        \/ perform_lottery_set(t)
        \/ Return(t)

LotterySpec == LotteryInit /\ [][LotteryNext]_vars

\* --------------------------------------------------- FairLotterySpec
\* The coordinator with the wait at `with self.lock:' made a place of its
\* own: a caller reaches the statement, and stands there until it takes the
\* lock.

\* The bets of the calls that are under way.
RECURSIVE PendingBets(_)
PendingBets(S) ==
    IF S = {} THEN 0
    ELSE LET t == CHOOSE u \in S : TRUE
         IN  Len(call[t].bets) + PendingBets(S \ {t})

\* A method is called: its caller reaches `with self.lock:'.
await_lock(t, op, bets, agency) ==
    /\ pc[t] = "idle"
    /\ pc' = [pc EXCEPT ![t] = "waiting"]
    /\ call' = [call EXCEPT ![t] = [op |-> op, bets |-> bets, agency |-> agency]]
    /\ UNCHANGED << lock, Rest >>
    /\ UNCHANGED others

EnterRegisterBet(t) ==
    /\ Len(storage) + PendingBets(Threads) + 1 <= MaxBets
    /\ \E bet \in BetUniverse : await_lock(t, "register_bet", << bet >>, 0)

EnterRegisterBatch(t) ==
    \E bets \in BatchUniverse :
        /\ Len(storage) + PendingBets(Threads) + Len(bets) <= MaxBets
        /\ await_lock(t, "register_batch", bets, 0)

EnterNotifyAgency(t) ==
    \E a \in NotifyIds : await_lock(t, "notify_agency", << >>, a)

EnterPerformLottery(t) == await_lock(t, "perform_lottery", << >>, 0)

EnterQueryWinners(t) ==
    \E a \in QueryIds : await_lock(t, "query_winners", << >>, a)

\* `with self.lock:' of the method called: the lock is free and is taken.
acquire_lock(t) ==
    /\ with_lock(t, "waiting", call[t].op, call[t].bets, call[t].agency)
    /\ UNCHANGED Rest
    /\ UNCHANGED others

\* The steps of a thread that holds the lock.
InLock(t) ==
    \/ RunRegisterBet(t)
    \/ RunRegisterBatch(t)
    \/ RunNotifyAgency(t)
    \/ RunQueryWinners(t)
    \/ perform_lottery_check(t)
    \/ perform_lottery_load(t)
    \/ perform_lottery_set(t)

FairLotteryNext ==
    \E t \in Threads :
        \/ EnterRegisterBet(t)
        \/ EnterRegisterBatch(t)
        \/ EnterNotifyAgency(t)
        \/ EnterPerformLottery(t)
        \/ EnterQueryWinners(t)
        \/ acquire_lock(t)
        \/ InLock(t)
        \/ Return(t)

\* Fair scheduling: a thread that runs goes on running, and a thread that
\* waits for the lock takes it if the lock is free again and again.  Nothing
\* makes a caller call, or take up what a call returned.
FairLotterySpec ==
    /\ LotteryInit
    /\ [][FairLotteryNext]_vars
    /\ \A t \in Threads : WF_vars(InLock(t)) /\ SF_vars(acquire_lock(t))

\* --------------------------------------------------- requests (Spec)
\* What a client writes: the encodings deserialize_string and
\* deserialize_bet read.
encode_string(string) == pack_u32(Len(string)) \o string

encode_bet(bet) ==
    pack_u32(bet.agency) \o encode_string(bet.first_name)
        \o encode_string(bet.last_name) \o pack_u32(int(bet.document))
        \o bet.birthdate \o pack_u32(bet.number)

\* One entry of a batch: the sub-length and the bytes of the nested bet.
encode_entry(bytes) == pack_u32(Len(bytes)) \o bytes

WinnerBet == MkBet(1, 30, LOTTERY_WINNER_NUMBER)
OtherWinnerBet == MkBet(2, 205, LOTTERY_WINNER_NUMBER)
LoserBet == MkBet(3, 41, 7)
\* A bet that only corrupt batches hold, as their well-formed entry.
StrayBet == MkBet(4, 99, LOTTERY_WINNER_NUMBER)

\* The bytes of WinnerBet cut in the middle of the birth date.
TruncatedBet == SubSeq(encode_bet(WinnerBet), 1, Len(encode_bet(WinnerBet)) - 9)
\* The bytes of LoserBet with a first name that is not UTF-8.
BadNameBet ==
    pack_u32(LoserBet.agency) \o encode_string(<< 255 >>)
        \o SubSeq(encode_bet(LoserBet), 10, Len(encode_bet(LoserBet)))

BetRequests == { << MSG_BET >> \o encode_bet(WinnerBet) }

GoodBatchRequests ==
    { << MSG_BATCH >> \o pack_u32(1 + 1) \o encode_entry(encode_bet(LoserBet))
          \o encode_entry(encode_bet(OtherWinnerBet)) }

\* Batches with one corrupt entry: the second of two (truncated), and the
\* first of two (a name that is not UTF-8).
BadBatchRequests ==
    { << MSG_BATCH >> \o pack_u32(1 + 1) \o encode_entry(encode_bet(StrayBet))
          \o encode_entry(TruncatedBet),
      << MSG_BATCH >> \o pack_u32(1 + 1) \o encode_entry(BadNameBet)
          \o encode_entry(encode_bet(StrayBet)) }

NotifyRequests == { << MSG_NOTIFY >> \o pack_u32(a) : a \in 1..(AGENCY_COUNT + 1) }

QueryRequests == { << MSG_WINNERS_QUERY >> \o pack_u32(a) : a \in QueryIds }

\* An unknown tag, and a frame body that came out empty.
OtherRequests == { << MSG_ECHO, 0, 0, 0, 0 >>, << >> }

Requests ==
    BetRequests \cup GoodBatchRequests \cup BadBatchRequests \cup NotifyRequests
        \cup QueryRequests \cup OtherRequests

\* -------------------------------------------------- common/server.py
\* The handlers of Server.message_handlers, up to the coordinator call each
\* of them makes.  Each gives what becomes of the request: an exception
\* (err, code), or the call (op, bets, agency).
Raise(err, code) == [err |-> err, code |-> code, op |-> "none", bets |-> << >>, agency |-> 0]
Invoke(op, bets, agency) == [err |-> "none", code |-> 0, op |-> op, bets |-> bets, agency |-> agency]

handle_bet(message_data) ==
    LET bet == deserialize_bet(message_data)
    IN  IF bet.ok THEN Invoke("register_bet", << bet.bet >>, 0)
        ELSE Raise("ProtocolError", ERROR_BET_FAILED)

\* A decoded batch goes to register_batch; what the decoding raised goes on
\* to handle_client.
batch_call(bets) ==
    IF bets.err = "none" THEN Invoke("register_batch", bets.bets, 0)
    ELSE Raise(bets.err, bets.code)

handle_batch(message_data) == batch_call(deserialize_batch(message_data))

handle_notify(message_data) ==
    LET agency_id == deserialize_agency_id(message_data)
    IN  IF agency_id.ok THEN Invoke("notify_agency", << >>, agency_id.val)
        ELSE Raise("Exception", 0)

handle_winners_query(message_data) ==
    LET agency_id == deserialize_agency_id(message_data)
    IN  IF agency_id.ok THEN Invoke("query_winners", << >>, agency_id.val)
        ELSE Raise("Exception", 0)

\* handle_client, lines 104-113: the tag picks the handler; an empty body
\* raises IndexError and an unknown tag ProtocolError(ERROR_INVALID_MESSAGE).
dispatch(message_data) ==
    IF Len(message_data) = 0 THEN Raise("Exception", 0)
    ELSE LET message_type == message_data[1]
             payload == Slice(message_data, 1, Len(message_data))
         IN  CASE message_type = MSG_BET -> handle_bet(payload)
               [] message_type = MSG_BATCH -> handle_batch(payload)
               [] message_type = MSG_NOTIFY -> handle_notify(payload)
               [] message_type = MSG_WINNERS_QUERY -> handle_winners_query(payload)
               [] OTHER -> Raise("ProtocolError", ERROR_INVALID_MESSAGE)

\* dispatch over the requests of the model, worked out once.
Dispatched == [m \in Requests |-> dispatch(m)]

\* Server.run: a connection is accepted and its thread started.
accept_new_connection(t) ==
    /\ pc[t] = "none"
    /\ pc' = [pc EXCEPT ![t] = "idle"]
    /\ UNCHANGED << agency_notifications, lock, lottery_done, winners, storage,
                    call, ret, resp, drawCount, storedAtLastNotify >>
    /\ UNCHANGED others

\* handle_client, one frame received whose handling raises: a ProtocolError
\* is answered with its code and the loop goes on (lines 115-117); any other
\* exception is answered with ERROR_INVALID_MESSAGE and ends the loop (lines
\* 124-127).
handle_client_error(t, message_data) ==
    \E d \in { Dispatched[message_data] } :
        /\ pc[t] = "idle"
        /\ d.err # "none"
        /\ resp' = [resp EXCEPT ![t] =
                      IF d.err = "ProtocolError" THEN send_response(MSG_ERROR, d.code)
                      ELSE send_response(MSG_ERROR, ERROR_INVALID_MESSAGE)]
        /\ pc' = [pc EXCEPT ![t] = IF d.err = "ProtocolError" THEN "idle" ELSE "closed"]
        /\ UNCHANGED << agency_notifications, lock, lottery_done, winners,
                        storage, call, ret, drawCount, storedAtLastNotify >>
        /\ UNCHANGED others

\* handle_client, one frame received and decoded: the handler calls the
\* coordinator, whose method takes the lock.
handle_client_call(t, message_data) ==
    \E d \in { Dispatched[message_data] } :
        /\ pc[t] = "idle"
        /\ d.err = "none"
        /\ Len(storage) + Len(d.bets) <= MaxBets
        /\ with_lock(t, "idle", d.op, d.bets, d.agency)
        /\ resp' = [resp EXCEPT ![t] = NoResp]
        /\ UNCHANGED << agency_notifications, lottery_done, winners, storage,
                        ret, drawCount, storedAtLastNotify >>
        /\ UNCHANGED others

\* handle_bet without line 133: the bet is registered and nothing is sent.
handle_bet_register_silent(t) ==
    /\ register_bet(t)
    /\ pc' = [pc EXCEPT ![t] = "idle"]
    /\ call' = [call EXCEPT ![t] = NoCall]
    /\ UNCHANGED resp
    /\ UNCHANGED others

\* handle_bet, lines 132-133: register_bet runs and returns, and the
\* success response is sent.
handle_bet_register(t) ==
    /\ register_bet(t)
    /\ resp' = [resp EXCEPT ![t] = send_response(MSG_SUCCESS, SUCCESS_BET_PROCESSED)]
    /\ pc' = [pc EXCEPT ![t] = "idle"]
    /\ call' = [call EXCEPT ![t] = NoCall]
    /\ UNCHANGED others

\* handle_batch, lines 138-140: register_batch runs and returns, and the
\* success response is sent.
handle_batch_register(t) ==
    /\ register_batch(t)
    /\ resp' = [resp EXCEPT ![t] = send_response(MSG_SUCCESS, SUCCESS_BATCH_PROCESSED)]
    /\ pc' = [pc EXCEPT ![t] = "idle"]
    /\ call' = [call EXCEPT ![t] = NoCall]
    /\ UNCHANGED others

\* handle_notify, line 145: notify_agency runs and returns, and so does the
\* handler: nothing is sent, and nothing more is called.
handle_notify_agency(t) ==
    /\ notify_agency(t)
    /\ pc' = [pc EXCEPT ![t] = "idle"]
    /\ call' = [call EXCEPT ![t] = NoCall]
    /\ UNCHANGED resp
    /\ UNCHANGED others

\* handle_winners_query, lines 150-157: query_winners runs and returns, and
\* its answer is sent.
handle_winners_query_answer(t) ==
    /\ query_winners(t)
    /\ resp' = [resp EXCEPT ![t] =
                  IF ~ret'[t].none THEN send_winners_list(ret'[t].docs)
                  ELSE send_response(MSG_ERROR, ERROR_LOTTERY_NOT_DONE)]
    /\ pc' = [pc EXCEPT ![t] = "idle"]
    /\ call' = [call EXCEPT ![t] = NoCall]
    /\ UNCHANGED others

\* receive_message, lines 75-77: the peer, having read what was sent to it,
\* has closed the connection, which raises ConnectionError and ends the loop
\* of handle_client.
client_disconnected(t) ==
    /\ pc[t] = "idle"
    /\ pc' = [pc EXCEPT ![t] = "closed"]
    /\ resp' = [resp EXCEPT ![t] = NoResp]
    /\ UNCHANGED << agency_notifications, lock, lottery_done, winners, storage,
                    call, ret, drawCount, storedAtLastNotify >>
    /\ UNCHANGED others

\* -------------------------------------------------------------- Spec
Init ==
    /\ LotteryManager_init
    /\ storage = << >>
    /\ pc = [t \in Threads |-> "none"]
    /\ call = [t \in Threads |-> NoCall]
    /\ ret = [t \in Threads |-> None]
    /\ resp = [t \in Threads |-> NoResp]
    /\ drawCount = 0
    /\ storedAtLastNotify = << >>
    /\ conn_init
    /\ run_init

\* The steps of the coordinator that the handlers reach: no handler calls
\* perform_lottery.
Next ==
    \E t \in Threads :
        \/ accept_new_connection(t)
        \/ \E m \in Requests : handle_client_error(t, m)
        \/ \E m \in Requests : handle_client_call(t, m)
        \/ handle_bet_register(t)
        \/ handle_batch_register(t)
        \/ handle_notify_agency(t)
        \/ handle_winners_query_answer(t)
        \/ client_disconnected(t)

Spec == Init /\ [][Next]_vars

\* ---------------------------------------------------------- ConnSpec
\* One connection, byte by byte: what the peer writes, receive_message of
\* protocol.py and the loop of Server.handle_client around it.

\* Number of scripts a peer writes, one after the other.
MaxScripts == 2
\* Largest number of frames sent on the connection while the input stands
\* still (the answers to a printable header).
MaxResponses == 3

\* The thread of the connection.
Conn == 1

\* A structured frame: the length of the body, then the body.
Frame(body) == pack_u32(Len(body)) \o body

\* A script is what the peer writes: a sequence of writes, each of them
\* bytes that reach the server together.

\* "hello", its first letter on its own
EchoScript == << << 104 >>, << 101, 108, 108, 111 >> >>
\* A length below MIN_PROTOCOL_MESSAGE_LENGTH, then the bytes that follow it.
ShortLengthScript ==
    << pack_u32(MIN_PROTOCOL_MESSAGE_LENGTH - 1), << MSG_NOTIFY, 0, 0, 1 >> >>
\* A length of MAX_BATCH_MSG_LENGTH with a byte that follows it.
LongLengthScript == << pack_u32(MAX_BATCH_MSG_LENGTH) \o << MSG_ECHO >> >>
\* A Notify frame that announces MAX_BATCH_MSG_LENGTH - 1 bytes and holds 5.
CutNotifyScript ==
    << pack_u32(MAX_BATCH_MSG_LENGTH - 1) \o << MSG_NOTIFY >> \o pack_u32(1 + 1) >>
\* A Batch frame that announces 5 bytes and holds 3.
CutBatchScript == << pack_u32(MIN_PROTOCOL_MESSAGE_LENGTH) \o << MSG_BATCH, 0, 0 >> >>
\* A Bet frame whose payload is no bet.
BadBetScript == << Frame(<< MSG_BET, 0, 0, 0, 1 >>) >>
\* A Batch frame of one entry whose bytes are no bet.
BadBatchScript == << Frame(<< MSG_BATCH >> \o pack_u32(1) \o encode_entry(<< 1, 1 >>)) >>
\* A Bet frame written in two parts, cut in the last name.
BetScript ==
    LET frame == Frame(<< MSG_BET >> \o encode_bet(WinnerBet))
    IN  << Slice(frame, 0, 16), Slice(frame, 16, Len(frame)) >>
\* A Notify frame whose header is written in two parts.
NotifyScript ==
    LET frame == Frame(<< MSG_NOTIFY >> \o pack_u32(1))
    IN  << Slice(frame, 0, 2), Slice(frame, 2, Len(frame)) >>

Scripts ==
    { EchoScript, ShortLengthScript, LongLengthScript, CutNotifyScript,
      CutBatchScript, BadBetScript, BadBatchScript, BetScript, NotifyScript,
      << Frame(<< MSG_WINNERS_QUERY >> \o pack_u32(1)) >>,
      << Frame(<< MSG_ECHO, 0, 0, 0, 0 >>) >> }

\* What a peer writes on its connection: up to n scripts.
RECURSIVE Written(_)
Written(n) ==
    IF n = 0 THEN { << >> }
    ELSE Written(n - 1) \cup { a \o b : a \in Scripts, b \in Written(n - 1) }

\* receive_message, line 78
all_printable(header) == \A i \in 1..Len(header) : 32 <= header[i] /\ header[i] <= 126

\* handle_echo_message(initial_data), with the bytes that follow initial_data
\* on the connection: what it would send.  Nothing calls it.
handle_echo_message(initial_data, following) ==
    initial_data \o Slice(following, 0, MAX_ECHO_MSG_LENGTH - Len(initial_data))

\* The coordinator and the bets file.
coord == << agency_notifications, lock, lottery_done, winners, storage, ret,
            drawCount, storedAtLastNotify >>

\* send_all(frame), and where handle_client goes then: on to the next frame
\* (goes_on) or out of its loop.  Sending to a peer that has closed may
\* succeed or raise ConnectionError, which ends the loop.
Sends(frame, goes_on) ==
    \/ /\ sent' = sent + 1
       /\ resp' = [resp EXCEPT ![Conn] = frame]
       /\ at' = IF goes_on THEN "peek" ELSE "done"
       /\ pc' = [pc EXCEPT ![Conn] = IF goes_on THEN "idle" ELSE "closed"]
    \/ /\ ~peer_open
       /\ UNCHANGED << sent, resp >>
       /\ at' = "done"
       /\ pc' = [pc EXCEPT ![Conn] = "closed"]

\* The next write of the peer reaches the server.
peer_send ==
    /\ at # "done"
    /\ unsent # << >>
    /\ stream' = stream \o Head(unsent)
    /\ unsent' = Tail(unsent)
    /\ UNCHANGED << coord, pc, call, resp, peer_open, at, body_length,
                    frame_body, sent, runvars >>

\* The peer closes the connection; what it had not written is never written.
peer_close ==
    /\ at # "done"
    /\ peer_open
    /\ peer_open' = FALSE
    /\ unsent' = << >>
    /\ UNCHANGED << coord, pc, call, resp, stream, at, body_length,
                    frame_body, sent, runvars >>

\* receive_message, lines 75-77: nothing to peek at and the peer gone.
receive_closed ==
    /\ at = "peek"
    /\ stream = << >>
    /\ ~peer_open
    /\ at' = "done"
    /\ pc' = [pc EXCEPT ![Conn] = "closed"]
    /\ UNCHANGED << coord, call, resp, stream, unsent, peer_open, body_length,
                    frame_body, sent, runvars >>

\* receive_message, lines 75-79, and handle_client, lines 115-117: the bytes
\* peeked at (up to 4, those that have arrived) are all printable, which
\* raises ProtocolError with MSG_ECHO for its code; handle_client answers
\* with an error frame and loops.  The bytes stay on the connection.
receive_echo ==
    /\ at = "peek"
    /\ stream # << >>
    /\ all_printable(Slice(stream, 0, 4))
    /\ sent < MaxResponses
    /\ Sends(send_response(MSG_ERROR, MSG_ECHO), TRUE)
    /\ UNCHANGED << coord, call, stream, unsent, peer_open, body_length,
                    frame_body, runvars >>

\* receive_message, lines 75-82: the bytes peeked at are not all printable.
receive_peek ==
    /\ at = "peek"
    /\ stream # << >>
    /\ ~all_printable(Slice(stream, 0, 4))
    /\ at' = "header"
    /\ UNCHANGED << coord, pc, call, resp, stream, unsent, peer_open,
                    body_length, frame_body, sent, runvars >>

\* read_with_timeout(n): the n bytes at the head of the connection, or, on a
\* timeout or when the peer has closed, the fewer that have arrived.
read_with_timeout(n) == Slice(stream, 0, n)

\* The length announced is one receive_message accepts (line 87).
length_ok(n) == MIN_PROTOCOL_MESSAGE_LENGTH <= n /\ n < MAX_BATCH_MSG_LENGTH

\* The end of an iteration of handle_client that received no whole frame.
no_frame == body_length' = 0 /\ frame_body' = << >>

\* receive_message that reads the body before it tests the length.
receive_header_late_test ==
    LET header == read_with_timeout(4)
        n == unpack_u32(header)
        after == Slice(stream, 4, Len(stream))
    IN  /\ at = "header"
        /\ IF ~n.ok
           THEN /\ stream' = after
                /\ Sends(send_response(MSG_ERROR, ERROR_INVALID_MESSAGE), FALSE)
                /\ no_frame
           ELSE IF ~length_ok(n.val)
           THEN /\ stream' = Slice(after, n.val, Len(after))
                /\ Sends(send_response(MSG_ERROR, ERROR_MALFORMED_MESSAGE), TRUE)
                /\ no_frame
           ELSE /\ stream' = after
                /\ at' = "body"
                /\ body_length' = n.val
                /\ UNCHANGED << pc, resp, frame_body, sent >>
        /\ UNCHANGED << coord, call, unsent, peer_open, runvars >>

\* receive_message, lines 82-89: the header is read and the length unpacked.
\* A header cut short makes struct.unpack raise, which handle_client answers
\* with ERROR_INVALID_MESSAGE before it leaves its loop (lines 124-127); a
\* length out of bounds raises ProtocolError, answered with
\* ERROR_MALFORMED_MESSAGE (lines 115-117).
receive_header ==
    LET header == read_with_timeout(4)
        n == unpack_u32(header)
    IN  /\ at = "header"
        /\ stream' = Slice(stream, 4, Len(stream))
        /\ IF ~n.ok
           THEN Sends(send_response(MSG_ERROR, ERROR_INVALID_MESSAGE), FALSE) /\ no_frame
           ELSE IF ~length_ok(n.val)
           THEN Sends(send_response(MSG_ERROR, ERROR_MALFORMED_MESSAGE), TRUE) /\ no_frame
           ELSE /\ at' = "body"
                /\ body_length' = n.val
                /\ UNCHANGED << pc, resp, frame_body, sent >>
        /\ UNCHANGED << coord, call, unsent, peer_open, runvars >>

\* receive_message, lines 91-93: the body is read, whole or cut short.
receive_body ==
    /\ at = "body"
    /\ frame_body' = read_with_timeout(body_length)
    /\ stream' = Slice(stream, body_length, Len(stream))
    /\ at' = "handle"
    /\ UNCHANGED << coord, pc, call, resp, unsent, peer_open, body_length,
                    sent, runvars >>

\* handle_client, lines 105-127, for a message whose handling raises.
conn_error ==
    LET d == dispatch(frame_body)
    IN  /\ at = "handle"
        /\ pc[Conn] = "idle"
        /\ d.err # "none"
        /\ IF d.err = "ProtocolError"
           THEN Sends(send_response(MSG_ERROR, d.code), TRUE)
           ELSE Sends(send_response(MSG_ERROR, ERROR_INVALID_MESSAGE), FALSE)
        /\ no_frame
        /\ UNCHANGED << coord, call, stream, unsent, peer_open, runvars >>

\* handle_client, lines 105-111: the handler decodes the message and calls
\* the coordinator.
conn_call ==
    LET d == dispatch(frame_body)
    IN  /\ at = "handle"
        /\ d.err = "none"
        /\ with_lock(Conn, "idle", d.op, d.bets, d.agency)
        /\ UNCHANGED << agency_notifications, lottery_done, winners, storage,
                        ret, drawCount, storedAtLastNotify, resp, connvars,
                        runvars >>

\* The handler sends its answer and returns to the loop of handle_client.
Answers(frame) ==
    /\ call' = [call EXCEPT ![Conn] = NoCall]
    /\ Sends(frame, TRUE)
    /\ no_frame
    /\ UNCHANGED << stream, unsent, peer_open, runvars >>

\* handle_bet, lines 132-133
conn_bet_register ==
    register_bet(Conn) /\ Answers(send_response(MSG_SUCCESS, SUCCESS_BET_PROCESSED))

\* handle_batch, lines 138-140
conn_batch_register ==
    register_batch(Conn) /\ Answers(send_response(MSG_SUCCESS, SUCCESS_BATCH_PROCESSED))

\* handle_notify, line 145: the handler returns and nothing is sent.
conn_notify_agency ==
    /\ notify_agency(Conn)
    /\ call' = [call EXCEPT ![Conn] = NoCall]
    /\ pc' = [pc EXCEPT ![Conn] = "idle"]
    /\ at' = "peek"
    /\ no_frame
    /\ UNCHANGED << resp, sent, stream, unsent, peer_open, runvars >>

\* handle_winners_query, lines 150-157
conn_winners_query_answer ==
    /\ query_winners(Conn)
    /\ Answers(IF ~ret'[Conn].none THEN send_winners_list(ret'[Conn].docs)
               ELSE send_response(MSG_ERROR, ERROR_LOTTERY_NOT_DONE))

ConnInit ==
    /\ LotteryManager_init
    /\ storage = << >>
    /\ pc = [t \in Threads |-> IF t = Conn THEN "idle" ELSE "none"]
    /\ call = [t \in Threads |-> NoCall]
    /\ ret = [t \in Threads |-> None]
    /\ resp = [t \in Threads |-> NoResp]
    /\ drawCount = 0
    /\ storedAtLastNotify = << >>
    /\ stream = << >>
    /\ unsent \in Written(MaxScripts)
    /\ peer_open = TRUE
    /\ at = "peek"
    /\ body_length = 0
    /\ frame_body = << >>
    /\ sent = 0
    /\ run_init

ConnNext ==
    \/ peer_send
    \/ peer_close
    \/ receive_closed
    \/ receive_echo
    \/ receive_peek
    \/ receive_header
    \/ receive_body
    \/ conn_error
    \/ conn_call
    \/ conn_bet_register
    \/ conn_batch_register
    \/ conn_notify_agency
    \/ conn_winners_query_answer

ConnSpec == ConnInit /\ [][ConnNext]_vars

\* ----------------------------------------------------------- RunSpec
\* The supervisor, Server.run, with the connection threads it starts and
\* the SIGTERM handler, which runs in run's own thread between two of its
\* steps.

\* The requests the connections of RunSpec send: one of each kind.
RunRequests ==
    BetRequests \cup GoodBatchRequests
        \cup { << MSG_NOTIFY >> \o pack_u32(1), << MSG_WINNERS_QUERY >> \o pack_u32(1),
               << MSG_ECHO, 0, 0, 0, 0 >> }

\* What the supervisor leaves alone.
served == << agency_notifications, lock, lottery_done, winners, storage, call,
             ret, resp, drawCount, storedAtLastNotify, connvars >>

\* __handle_sigterm, lines 38-40
handle_sigterm ==
    /\ ~shutdown_event
    /\ shutdown_event' = TRUE
    /\ server_socket' = FALSE
    /\ UNCHANGED << served, pc, run_at, client_threads, joined >>

\* run, lines 51-53, and __accept_new_connection: the event is not set and
\* accept returns a connection, which thread t will serve.
run_accept(t) ==
    /\ run_at = "accept"
    /\ ~shutdown_event
    /\ server_socket
    /\ pc[t] = "none"
    /\ pc' = [pc EXCEPT ![t] = "accepted"]
    /\ run_at' = "start"
    /\ UNCHANGED << served, shutdown_event, server_socket, client_threads, joined >>

\* run, lines 55-57, without line 56: the thread is started and not listed.
run_start_unlisted(t) ==
    /\ run_at = "start"
    /\ pc[t] = "accepted"
    /\ pc' = [pc EXCEPT ![t] = "idle"]
    /\ run_at' = "accept"
    /\ UNCHANGED << served, shutdown_event, server_socket, client_threads, joined >>

\* run, lines 55-57: the thread of the connection is listed and started.
run_start(t) ==
    /\ run_at = "start"
    /\ pc[t] = "accepted"
    /\ client_threads' = Append(client_threads, t)
    /\ pc' = [pc EXCEPT ![t] = "idle"]
    /\ run_at' = "accept"
    /\ UNCHANGED << served, shutdown_event, server_socket, joined >>

\* run, lines 51 and 59-62: the event is set (the loop ends at its test, or
\* accept raises OSError on the closed socket), and __shutdown_workers is
\* entered.
run_exit ==
    /\ run_at = "accept"
    /\ shutdown_event
    /\ run_at' = "join"
    /\ UNCHANGED << served, pc, shutdown_event, server_socket, client_threads, joined >>

\* __shutdown_workers, lines 96-97: join returns for the next thread of the
\* list, which has finished.
run_join ==
    /\ run_at = "join"
    /\ joined < Len(client_threads)
    /\ pc[client_threads[joined + 1]] = "closed"
    /\ joined' = joined + 1
    /\ UNCHANGED << served, pc, shutdown_event, server_socket, run_at, client_threads >>

\* __shutdown_workers, line 98, and the end of run.
run_return ==
    /\ run_at = "join"
    /\ joined = Len(client_threads)
    /\ run_at' = "returned"
    /\ UNCHANGED << served, pc, shutdown_event, server_socket, client_threads, joined >>

RunNext ==
    \/ handle_sigterm
    \/ run_exit
    \/ run_join
    \/ run_return
    \/ \E t \in Threads :
        \/ run_accept(t)
        \/ run_start(t)
        \/ \E m \in RunRequests : handle_client_error(t, m)
        \/ \E m \in RunRequests : handle_client_call(t, m)
        \/ handle_bet_register(t)
        \/ handle_batch_register(t)
        \/ handle_notify_agency(t)
        \/ handle_winners_query_answer(t)
        \/ client_disconnected(t)

RunSpec == Init /\ [][RunNext]_vars

\* ------------------------------------------------------------ claims
\* No thread is inside a handler or a coordinator method.
Quiescent == \A t \in Threads : pc[t] \in {"none", "idle", "closed"}

NotifiedAgencies == {a \in Agencies : agency_notifications[a]}

\* C1 (LotterySpec): however many threads call perform_lottery, and however
\* the calls interleave with the other methods, the draw body (load, filter,
\* assign winners, set lottery_done) runs at most once.
C1_DrawAtMostOnce == drawCount <= 1

\* C1 witness: the draw has run once and a later perform_lottery call stands
\* at the lottery_done test, about to skip.
C1_Witness ==
    /\ drawCount = 1
    /\ \E t \in Threads : pc[t] = "perform_lottery" /\ lottery_done

\* C2 (Spec), as the claim states it: once every agency has notified and no
\* handler is running any more, the draw has been performed.
C2_DrawnOnceAllNotified ==
    (all_agencies_notified /\ Quiescent) => lottery_done

\* C3 (Spec): lottery_done is true, or the draw body has run, only when
\* every configured agency is marked as notified; with at most
\* AGENCY_COUNT - 1 agencies notified there has been no draw.
C3_DrawOnlyAfterAllNotified ==
    (lottery_done \/ drawCount > 0 \/ winners # << >>) => all_agencies_notified

\* C3 witness: all agencies but one have notified, their handlers have
\* returned, and there has been no draw.
C3_Witness ==
    /\ Cardinality(NotifiedAgencies) = AGENCY_COUNT - 1
    /\ Quiescent
    /\ ~lottery_done

C5_QueryBeforeDrawNotReady ==
    /\ [](\A t \in Threads :
            pc[t] = "query_winners" => ENABLED handle_winners_query_answer(t))
    /\ [][\A t \in Threads :
            (pc[t] = "query_winners" /\ pc'[t] # "query_winners" /\ ~lottery_done)
            => /\ ret'[t] = None
               /\ UNCHANGED << agency_notifications, lottery_done, winners,
                               storage >>
               /\ resp'[t] = << 0, 0, 0, 2, MSG_ERROR, ERROR_LOTTERY_NOT_DONE >>]_vars

\* C5 witness: a query was answered with the lottery-not-done error while
\* some agencies had notified and others had not.
C5_Witness ==
    \E t \in Threads :
        /\ pc[t] = "idle"
        /\ resp[t] = << 0, 0, 0, 2, MSG_ERROR, ERROR_LOTTERY_NOT_DONE >>
        /\ NotifiedAgencies # {}
        /\ ~all_agencies_notified

\* The places in winners of the bets of one agency.
WinnerPlaces(agency_id) ==
    {i \in 1..Len(winners) : winners[i].agency = agency_id}

\* r is a list (not None) that holds, for each winner of the agency and in
\* the winners' order, the number the winner's document text spells.
IsAnswerFor(r, agency_id) ==
    /\ ~r.none
    /\ Len(r.docs) = Cardinality(WinnerPlaces(agency_id))
    /\ \A i \in WinnerPlaces(agency_id) :
          str(r.docs[Cardinality({j \in WinnerPlaces(agency_id) : j <= i})])
              = winners[i].document

\* C6 (LotterySpec): after the draw, query_winners(agency_id) returns the
\* documents of exactly the winners of that agency, in the winners' order;
\* with no such winner it returns the empty list, which is not None.
C6_QueryAnswersAgencyWinners ==
    [][\A t \in Threads :
          (pc[t] = "query_winners" /\ pc'[t] = "returned" /\ lottery_done)
          => IsAnswerFor(ret'[t], call[t].agency)]_vars

\* C6 witness: a query returned one document out of two winners (the other
\* winner belongs to another agency).
C6_Witness ==
    \E t \in Threads :
        /\ pc[t] = "returned"
        /\ call[t].op = "query_winners"
        /\ ~ret[t].none
        /\ Len(ret[t].docs) = 1
        /\ Len(winners) = 2

\* C7 (LotterySpec): once lottery_done is true no step changes winners.
C7_WinnersFrozenAfterDraw == [][lottery_done => winners' = winners]_vars

\* C7 witness: after the draw a winning bet was stored, and an agency
\* notified, and winners does not hold that bet.
C7_Witness ==
    /\ lottery_done
    /\ Len(SelectSeq(storage, has_won)) > Len(winners)
    /\ NotifiedAgencies # {}

\* C8 (LotterySpec): while a thread is in the body of query_winners no
\* thread is in the draw body (winners being assigned, lottery_done not
\* yet set), and a query returns a list only once lottery_done is set.
C8_QuerySeesNoPartialDraw ==
    \A t \in Threads :
        /\ pc[t] = "query_winners" =>
              \A u \in Threads :
                  pc[u] \notin {"perform_lottery", "perform_lottery_load",
                                "perform_lottery_set"}
        /\ (pc[t] = "returned" /\ call[t].op = "query_winners" /\ ~ret[t].none)
              => lottery_done

\* C8 witness: a query has returned None, the caller still holds that
\* answer, and another thread is in the draw body with winners assigned and
\* lottery_done not yet set.
C8_Witness ==
    \E t, u \in Threads :
        /\ pc[t] = "returned" /\ call[t].op = "query_winners" /\ ret[t].none
        /\ pc[u] = "perform_lottery_set"
        /\ winners # << >>
        /\ ~lottery_done

\* What storage is made of when every request is stored whole: single bets
\* of Bet requests and the full lists of well-formed Batch requests.
StoredUnits ==
    { Dispatched[m].bets : m \in BetRequests \cup GoodBatchRequests }

RECURSIVE MadeOfUnits(_)
MadeOfUnits(file) ==
    \/ file = << >>
    \/ \E u \in StoredUnits :
          /\ Len(u) <= Len(file)
          /\ SubSeq(file, 1, Len(u)) = u
          /\ MadeOfUnits(SubSeq(file, Len(u) + 1, Len(file)))

\* C9 (Spec): a Batch request with a corrupt entry is answered, from the
\* loop's head, with the batch-failed error frame, without a call of the
\* coordinator and with storage left as it was; no bet that only corrupt
\* batches hold is ever stored, and storage is made of whole requests.
C9_CorruptBatchStoresNothing ==
    /\ \A m \in BadBatchRequests, t \in Threads :
          pc[t] = "idle" =>
              ENABLED (/\ handle_client_error(t, m)
                       /\ resp'[t] = << 0, 0, 0, 2, MSG_ERROR, ERROR_BATCH_FAILED >>
                       /\ pc'[t] = "idle"
                       /\ storage' = storage)
    /\ \A m \in BadBatchRequests, t \in Threads : ~ENABLED handle_client_call(t, m)
    /\ \A i \in 1..Len(storage) : storage[i] # StrayBet
    /\ MadeOfUnits(storage)

\* C9 witness: a batch was answered with the batch-failed error while
\* storage holds bets of earlier requests.
C9_Witness ==
    \E t \in Threads :
        /\ resp[t] = << 0, 0, 0, 2, MSG_ERROR, ERROR_BATCH_FAILED >>
        /\ Len(storage) > 0

\* C10 (Spec), as the claim states it: once the notification that
\* completes the set has been handled and no handler is running, every
\* winning bet that was stored when it arrived is among the winners.
C10_RegisteredBeforeNotifyWins ==
    (all_agencies_notified /\ Quiescent) =>
        \A i \in 1..Len(storedAtLastNotify) :
            has_won(storedAtLastNotify[i]) =>
                \E j \in 1..Len(winners) : winners[j] = storedAtLastNotify[i]

\* C11 (ConnSpec), as the claim states it: when the first four bytes on the
\* connection are all printable, what the dispatcher sends next is the bytes
\* it collected from the connection (the four and up to MAX_ECHO_MSG_LENGTH
\* - 4 that follow), unchanged and unframed, and those bytes have left the
\* connection.
C11_PrintableHeaderEchoed ==
    [][(/\ at = "peek"
        /\ Len(stream) >= 4
        /\ all_printable(Slice(stream, 0, 4))
        /\ sent' # sent)
       => /\ sent' = sent + 1
          /\ resp'[Conn] = handle_echo_message(Slice(stream, 0, 4),
                                               Slice(stream, 4, Len(stream)))
          /\ resp'[Conn] \o stream' = stream]_vars

\* C12 (ConnSpec): when the four header bytes have arrived and the length
\* they hold is below 5 or not below 8192, receive_message takes those four
\* bytes off the connection and nothing more; the frame is rejected (no
\* body is read, no handler runs) and, unless the send fails on a closed
\* peer, answered with the malformed-message error, the loop going on.
C12_BadLengthConsumesHeaderOnly ==
    [][(/\ at = "header"
        /\ Len(stream) >= 4
        /\ LET n == unpack_u32(SubSeq(stream, 1, 4)).val
           IN  n < MIN_PROTOCOL_MESSAGE_LENGTH \/ n >= MAX_BATCH_MSG_LENGTH
        /\ at' # at)
       => /\ stream' = SubSeq(stream, 5, Len(stream))
          /\ frame_body' = << >>
          /\ pc'[Conn] \in {"idle", "closed"}
          /\ \/ /\ sent' = sent + 1
                /\ resp'[Conn] = << 0, 0, 0, 2, MSG_ERROR, ERROR_MALFORMED_MESSAGE >>
                /\ at' = "peek"
             \/ /\ ~peer_open
                /\ sent' = sent
                /\ at' = "done"]_vars

\* C12 witness: a frame was rejected as malformed and the bytes that came
\* after its length field are still on the connection.
C12_Witness ==
    /\ at = "peek"
    /\ sent = 1
    /\ resp[Conn] = << 0, 0, 0, 2, MSG_ERROR, ERROR_MALFORMED_MESSAGE >>
    /\ stream = << MSG_NOTIFY, 0, 0, 1 >>

\* The error code the claim C13 gives to a message that fails to decode: an
\* unknown tag, a Bet that does not decode, a Batch that does not decode;
\* 0 for a message that decodes.
DecodeFailureCode(m) ==
    LET payload == SubSeq(m, 2, Len(m))
    IN  CASE m[1] = MSG_BET ->
               IF deserialize_bet(payload).ok THEN 0 ELSE ERROR_BET_FAILED
          [] m[1] = MSG_BATCH ->
               IF deserialize_batch(payload).err = "none" THEN 0 ELSE ERROR_BATCH_FAILED
          [] m[1] \in {MSG_NOTIFY, MSG_WINNERS_QUERY} -> 0
          [] OTHER -> ERROR_INVALID_MESSAGE

\* C13 (ConnSpec), as the claim states it: when the message received has an
\* unknown tag, or is a Bet or a Batch that fails to decode, and the peer is
\* there to be answered, the dispatcher sends one error response with the
\* code of the failure (invalid-message, bet-failed, batch-failed) and goes
\* on to the next frame, the connection open.
C13_ProtocolErrorAnsweredLoopGoesOn ==
    [][(/\ at = "handle"
        /\ pc[Conn] = "idle"
        /\ peer_open
        /\ frame_body # << >>
        /\ DecodeFailureCode(frame_body) # 0
        /\ << at, pc >>' # << at, pc >>)
       => /\ sent' = sent + 1
          /\ resp'[Conn] = << 0, 0, 0, 2, MSG_ERROR, DecodeFailureCode(frame_body) >>
          /\ at' = "peek"
          /\ pc'[Conn] = "idle"]_vars

\* A thread is inside a handler, in the coordinator method the handler calls.
InHandler(t) == pc[t] \in {"register_bet", "register_batch", "notify_agency", "query_winners"}

\* A response frame with a type, MSG_SUCCESS or MSG_ERROR.
Typed(frame) == Len(frame) >= 6 /\ frame[5] \in {MSG_SUCCESS, MSG_ERROR}

\* C14 (Spec), as the claim states it: a handler that returns to the loop of
\* handle_client has sent a response for its request, or the connection is
\* closed.
C14_EveryRequestAnswered ==
    [][\A t \in Threads :
          (InHandler(t) /\ pc'[t] # pc[t])
          => (resp'[t] # NoResp \/ pc'[t] = "closed")]_vars

\* C14 (Spec), amended: a thread inside a handler can always finish it; a
\* Bet, Batch or WinnersQuery handler that finishes has sent one typed
\* response; a request that fails to decode or has an unknown tag can always
\* be answered, with a typed error response; a Notify handler that finishes
\* has sent nothing and its connection stays open for the next frame.
C14_AnsweredUnlessNotify ==
    /\ [](\A t \in Threads :
            InHandler(t) =>
                ENABLED (\/ handle_bet_register(t)
                         \/ handle_batch_register(t)
                         \/ handle_notify_agency(t)
                         \/ handle_winners_query_answer(t)))
    /\ [](\A t \in Threads, m \in Requests :
            (pc[t] = "idle" /\ Dispatched[m].err # "none") =>
                ENABLED (handle_client_error(t, m) /\ Typed(resp'[t])
                           /\ resp'[t][5] = MSG_ERROR))
    /\ [][\A t \in Threads :
            (InHandler(t) /\ pc'[t] # pc[t])
            => /\ pc'[t] = "idle"
               /\ IF pc[t] = "notify_agency" THEN resp'[t] = NoResp
                  ELSE Typed(resp'[t])]_vars

\* C14 witness: the one connection there is has had a Notify handled (an
\* agency is marked), is open and waits for its next frame, and nothing was
\* sent on it since that request was read.
C14_Witness ==
    \E t \in Threads :
        /\ pc[t] = "idle"
        /\ resp[t] = NoResp
        /\ NotifiedAgencies # {}
        /\ \A u \in Threads \ {t} : pc[u] = "none"

\* C17 (ConnSpec), as the claim states it: the message handed to the
\* handlers holds as many bytes as the frame's length field announced.
C17_HandlerGetsWholeBody ==
    at = "handle" => Len(frame_body) = body_length

\* C20 (ConnSpec), as the claim states it: an iteration of handle_client
\* that sends a response and goes on to the next one has taken at least one
\* byte off the connection.
C20_IterationConsumes ==
    [][(at = "peek" /\ at' = "peek" /\ sent' # sent)
       => Len(stream') < Len(stream)]_vars

\* C15 (RunSpec): once the shutdown signal has been handled no connection
\* is accepted any more; run returns only when every thread it started has
\* finished; the signal ends no connection (it changes the place of no
\* thread), and a thread inside a handler can finish it, signal or not.
C15_ShutdownDrainsThreads ==
    /\ [][shutdown_event =>
            \A t \in Threads : pc[t] = "none" => pc'[t] = "none"]_vars
    /\ [](run_at = "returned" => \A t \in Threads : pc[t] \in {"none", "closed"})
    /\ [][shutdown_event' # shutdown_event => pc' = pc]_vars
    /\ [](\A t \in Threads :
            InHandler(t) =>
                ENABLED (\/ handle_bet_register(t)
                         \/ handle_batch_register(t)
                         \/ handle_notify_agency(t)
                         \/ handle_winners_query_answer(t)))

\* C15 witness: after the signal, with run in __shutdown_workers and one
\* thread joined, another thread is still inside a handler.
C15_Witness ==
    /\ shutdown_event
    /\ run_at = "join"
    /\ joined = 1
    /\ \E t \in Threads : InHandler(t)

\* A thread stands at `with self.lock:' of a registration, or has returned
\* from one.
Registering(t) ==
    pc[t] = "waiting" /\ call[t].op \in {"register_bet", "register_batch"}
Registered(t) ==
    pc[t] = "returned" /\ call[t].op \in {"register_bet", "register_batch"}

\* C18 (FairLotterySpec): under fair scheduling a thread that has called
\* register_bet or register_batch returns from it, whatever the agencies
\* have notified; and whenever a thread waits for the lock, the lock is
\* free for it or its holder has a step to take: no waiting thread is stuck.
C18_RegistrationReturns ==
    /\ \A t \in Threads : Registering(t) ~> Registered(t)
    /\ [](\A t \in Threads :
            pc[t] = "waiting" =>
                \/ ENABLED acquire_lock(t)
                \/ \E u \in Threads : ENABLED InLock(u))

\* C18 witness: a registration has returned while no agency has notified
\* and another thread waits for the lock in notify_agency.
C18_Witness ==
    \E t, u \in Threads :
        /\ Registered(t)
        /\ \A a \in Agencies : ~agency_notifications[a]
        /\ pc[u] = "waiting" /\ call[u].op = "notify_agency"

\* A thread stands inside a `with self.lock:' block; a thread stands at a
\* call of store_bets (register_bet, register_batch) or of load_bets and
\* has_won (perform_lottery).
HoldsLock(t) ==
    pc[t] \in {"register_bet", "register_batch", "notify_agency", "perform_lottery",
               "perform_lottery_load", "perform_lottery_set", "query_winners"}
AtStorage(t) == pc[t] \in {"register_bet", "register_batch", "perform_lottery_load"}

\* C16 (FairLotterySpec): a thread at store_bets, load_bets or has_won holds
\* the coordinator lock and no other thread is inside a lock-guarded block,
\* so at most one thread is at such an operation; and the bets file and the
\* winners change only in a step taken with the lock held.
C16_StorageUnderLock ==
    /\ [](\A t \in Threads :
            AtStorage(t) => lock /\ \A u \in Threads \ {t} : ~HoldsLock(u))
    /\ [][storage' # storage \/ winners' # winners => lock]_vars

\* C16 witness: the draw loads a bets file that is not empty while another
\* thread waits for the lock with a registration.
C16_Witness ==
    \E t, u \in Threads :
        /\ pc[t] = "perform_lottery_load"
        /\ storage # << >>
        /\ Registering(u)

====
